---- MODULE Spec2Model ----
(***************************************************************************)
(* Model of caifeng123/my_claw:                                            *)
(*   - the Launcher (launcher.ts): the supervisor of the worker process,   *)
(*     its restart / retry / rollback logic and the restart-state file;    *)
(*   - the FeishuAgentBridge (feishu-agent-bridge.ts): per-conversation    *)
(*     serialization of inbound messages;                                  *)
(*   - the FeishuService message dedup cache (feishu-service.ts).          *)
(*                                                                         *)
(* Node.js runs every handler to its first `await` in one event-loop task; *)
(* the continuation after an `await` is a microtask, and all microtasks    *)
(* run before the next task (timer, IPC message, child exit event).  The   *)
(* model keeps that structure: an action is one task together with the     *)
(* microtasks it queues, run in FIFO order.                                *)
(***************************************************************************)
EXTENDS Naturals, Integers, Sequences, FiniteSets, TLC

\* ---------------------------------------------------------------- bounds
MaxWorkers == 5          \* worker processes forked in one behaviour
MaxDisturbances == 2     \* events of one behaviour that are not a worker's ready or
                         \* exit or a consequence of them: /restart commands, edits
                         \* of the tree, failing git commands, startup timers that
                         \* fire, workers that outlive SIGTERM by the grace period,
                         \* a termination signal to the launcher
MaxMsgs == 3             \* messages handed to handleFeishuMessage in one behaviour
MaxIds == 3              \* distinct message ids the transport delivers
MaxDeliveries == 5       \* deliveries (with redeliveries) in one behaviour
MaxTime == 4             \* clock ticks in one behaviour
DedupMax == 3            \* cache capacity: stands for the 1000 of isDuplicate
DedupTtl == 2            \* ticks an entry lives: stands for the 30 minutes of isDuplicate
MaxSessionCalls == 4     \* messages and bridge stops seen by the session registry
MaxInvocations == 3      \* messages whose agent invocation is followed
MaxTextLen == 6          \* characters of a reply handed to sendMessage
MaxDeltas == 2           \* content deltas of all streams together
MaxTypingMsgs == 3       \* messages whose working indicator is followed
MaxRewrites == 2         \* times the state file is rewritten or removed from outside
MaxPushes == 5           \* addMessage calls on the session in one behaviour
CompressMin == 3         \* stands for the 10 messages below which nothing is compressed
KeepRecent == 2          \* stands for the 5 recent messages kept by compressContext
MaxContextLength == 4    \* stands for maxContextLength (4000 estimated tokens)
MinLimit == 3            \* the smallest and the largest value standing for
MaxLimit == 4            \* CARD_MD_LIMIT (4000 characters)

\* ------------------------------------------------------- program constants
MAX_RESTART_RETRIES == 1

Workers == 1..MaxWorkers
MsgIds == 1..MaxIds
Chats == {"c1", "c2"}
Threads == {"", "t1"}                  \* "": message.threadId is undefined
Contents == {"hello", "/restart", ""}  \* message.content after trim()
SessionChats == {"a", "a_b", "c"}      \* chat ids, one holding the separator
SessionThreads == {"", "b"}

VARIABLES
  \* ---- Launcher object fields
  child,            \* this.child: the worker the launcher refers to, 0 = null
  readyTimeout,     \* this.readyTimeout: timer handle (named by its worker), 0 = null
  restartRetries,   \* this.restartRetries
  isShuttingDown,   \* this.isShuttingDown
  isRestarting,     \* this.isRestarting
  \* ---- the launcher process and its event loop
  proc,             \* "init" | "running" | "exit0" | "exit1"
  timers,           \* startup timers that are armed (by worker)
  kills,            \* pending killChild promises, in listener order: [w, cont]
  cleanupTimers,    \* number of pending setTimeout(cleanupStateFile, 3000)
  \* ---- worker processes
  workers,          \* worker -> "none" | "starting" | "ready" | "exited"
  killed,           \* workers whose ChildProcess.killed flag is set
  ipc,              \* workers with a {type:'restart'} message in flight
  hrs,              \* worker -> pending handleRestartState() invocations
  nextW,            \* id of the next worker to fork
  \* ---- shared resources
  stateFile,        \* .restart-state.json
  git,              \* [dirty, stashes, commits]: working tree, launcher stashes, commits made
  \* ---- history (not program state)
  hist,             \* [retryW, retryFailed, due, gitFailed, disturbances]
  last,             \* the task or microtask that ran last and what it did
  \* ---- FeishuAgentBridge
  msgs,             \* messages in the order handleFeishuMessage was invoked with them
  pc,               \* message -> where its handleFeishuMessage call stands
  processingChats,  \* this.processingChats: the conversation keys marked
  bhist,            \* history: [invoked, waited, parallel, ceilingReached]
  \* ---- FeishuService
  messageCache,     \* this.messageCache: entries [id, ts] in insertion order
  now,              \* Date.now(), in ticks
  delivery,         \* the last delivery handled: [n, id, at, duplicate, callback]
  dhist,            \* history: [seenAt, since] by message id
  \* ---- session registry (FeishuAgentBridge and the agent engine)
  chatToSessionMap, \* this.chatToSessionMap: the pairs [key, sessionId]
  sessions,         \* SessionManager.sessions: session id -> its conversation history
  shist,            \* history: [n, returned, creates, lost]
  \* ---- agent invocation of a message (FeishuAgentBridge, AgentEngine)
  enableStreaming,  \* config.enableStreaming
  streamHandler,    \* AgentEngine.streamHandler: whose eventHandlers it holds, 0 = none
  inv,              \* per message: where its invocation stands
  rhist,            \* history: [failed, answers, errors, deltas]
  inbound,          \* per message: its threadId, "" = none
  fullResponse,     \* per message: fullResponse of handleStreamingResponse
  outbox,           \* the messages handed to FeishuService.sendMessage
  \* ---- FeishuService.sendMessage of one reply
  processedText,    \* the text to send, a sequence of characters
  limit,            \* CARD_MD_LIMIT
  anchor,           \* messageId argument: the message replied to, "" = undefined
  sent,             \* the card messages sent, in order: [text, replyTo]
  \* ---- the two readers of the restart state file
  disk,             \* what .restart-state.json holds, by kind of content
  connected,        \* bridge.isBridgeConnected()
  rd,               \* per reader: [pc, saw, gen, result, notified, deleted, escaped]
  generation,       \* how often the file was rewritten or removed from outside
  \* ---- the working indicator (FeishuService.sendTyping)
  tmsgs,                \* inbound messages, in arrival order: [chatId, threadId]
  tpc,                  \* per message: where its handleFeishuMessage stands
  lastMessageIdByChat,  \* this.lastMessageIdByChat, 0 = no entry
  typingReactionByChat, \* this.typingReactionByChat: chat -> [msg, reaction], msg 0 = no entry
  reactions,            \* the reactions present on messages: [msg, reaction]
  \* ---- one session of the SessionManager
  messages,         \* session.messages: [n, role, text], n = the number of the push
  contextLength,    \* session.contextLength
  pushed            \* addMessage calls so far

lvars == <<child, readyTimeout, restartRetries, isShuttingDown, isRestarting,
           proc, timers, kills, cleanupTimers, workers, killed,
           ipc, hrs, nextW, stateFile, git, hist, last>>

bvars == <<msgs, pc, processingChats, bhist>>

dvars == <<messageCache, now, delivery, dhist>>

svars == <<chatToSessionMap, sessions, shist>>

rvars == <<enableStreaming, streamHandler, inv, rhist, inbound, fullResponse, outbox>>

pvars == <<processedText, limit, anchor, sent>>

fvars == <<disk, connected, rd, generation>>

tvars == <<tmsgs, tpc, lastMessageIdByChat, typingReactionByChat, reactions>>

cvars == <<messages, contextLength, pushed>>

vars == <<lvars, bvars, dvars, svars, rvars, pvars, fvars, tvars, cvars>>

\* ------------------------------------------------------- restart state file
NoFile == [exists |-> FALSE, status |-> "", error |-> "", stashCreated |-> FALSE,
           chatIds |-> <<>>, messageIds |-> <<>>]

RestartingState(chatIds, messageIds) ==
  [exists |-> TRUE, status |-> "restarting", error |-> "", stashCreated |-> FALSE,
   chatIds |-> chatIds, messageIds |-> messageIds]

\* updateState(patch): read-modify-write, nothing when the file is absent.
UpdateState(s, patch) ==
  IF s.stateFile.exists
  THEN [s EXCEPT !.stateFile =
          [f \in DOMAIN s.stateFile |->
             IF f \in DOMAIN patch THEN patch[f] ELSE s.stateFile[f]]]
  ELSE s

CleanupStateFile(s) == [s EXCEPT !.stateFile = NoFile]

\* ------------------------------------------------------------ packing
LS ==
  [child |-> child, readyTimeout |-> readyTimeout, restartRetries |-> restartRetries,
   isShuttingDown |-> isShuttingDown, isRestarting |-> isRestarting, proc |-> proc,
   timers |-> timers, kills |-> kills,
   cleanupTimers |-> cleanupTimers, workers |-> workers, killed |-> killed,
   ipc |-> ipc, hrs |-> hrs, nextW |-> nextW, stateFile |-> stateFile, git |-> git,
   hist |-> hist,
   \* the running task: its microtask queue (FIFO), what it has done so
   \* far, and whether it left the bounds of the model
   microtasks |-> <<>>, ev |-> {}, overflow |-> FALSE]

Emit(s, e) == [s EXCEPT !.ev = @ \cup {e}]

\* The running task is counted against MaxDisturbances; beyond the bound
\* it is not taken.
Disturb(s) ==
  [s EXCEPT !.hist.disturbances = @ + 1,
            !.overflow = @ \/ s.hist.disturbances >= MaxDisturbances]

\* A git command of the running task throws (execSync).
GitFailure(s) ==
  [Disturb(s) EXCEPT !.ev = @ \cup {"gitfail"}, !.hist.gitFailed = TRUE]

\* ------------------------------------------------------------ forkChild
\* The part of forkChild after the optional kill: fork, register the
\* listeners, arm the startup timer and store its handle.
Fork(s, origin) ==
  IF s.nextW > MaxWorkers
  THEN [s EXCEPT !.overflow = TRUE]
  ELSE LET w == s.nextW IN
       [s EXCEPT !.workers[w] = "starting",
                 !.child = w,
                 !.readyTimeout = w,
                 !.timers = @ \cup {w},
                 !.nextW = w + 1,
                 !.ev = @ \cup {"fork"} \cup (IF s.hist.due THEN {"forkDue"} ELSE {}),
                 !.hist = [@ EXCEPT !.due = FALSE,
                                    !.retryW = IF origin = "retry" THEN w ELSE @,
                                    !.retryFailed = IF origin = "retry" THEN FALSE ELSE @]]

\* killChild() with a child: register once('exit', cleanup), send SIGTERM
\* (which sets child.killed), start the force-kill timer; `cont` is what the
\* caller does once the promise resolves.
KillChild(s, cont) ==
  [s EXCEPT !.kills = Append(@, [w |-> s.child, cont |-> cont]),
            !.killed = @ \cup {s.child}]

Enqueue(s, cont) == [s EXCEPT !.microtasks = Append(@, cont)]

\* What the caller of forkChild does when forkChild's promise resolves:
\* only performRestart has code after it (finally: isRestarting = false).
AfterFork(s, origin) ==
  IF origin = "restart" THEN Enqueue(s, "restartFinally") ELSE s

ForkChild(s, origin) ==
  IF s.child # 0
  THEN KillChild(s, IF origin = "restart" THEN "forkRestart"
                    ELSE IF origin = "retry" THEN "forkRetry"
                    ELSE "forkRollback")
  ELSE AfterFork(Fork(s, origin), origin)

\* ------------------------------------------------------------ performRestart
PerformRestart(s) ==
  IF s.isRestarting
  THEN s
  ELSE LET s1 == [Emit(s, "sequence") EXCEPT !.isRestarting = TRUE] IN
       IF s1.child = 0
       THEN Enqueue(s1, "restartAfterKill")      \* await of a resolved promise
       ELSE KillChild(s1, "restartAfterKill")

\* ------------------------------------------------------------ rollback
\* git: "ok" or "fail" (the outcome of the git commands this task runs).
PerformRollback(s, err, gitRes) ==
  LET s0 == [s EXCEPT !.ev = @ \cup {"rollback"}
                        \cup (IF s.hist.retryW # 0 /\ s.hist.retryFailed
                              THEN {"retryHadFailed"} ELSE {})] IN
  IF gitRes = "fail"
  THEN \* catch (rollbackError): no stash recorded, no fork
       UpdateState(GitFailure(s0),
                   [status |-> "rollback", error |-> "rollback failed"])
  ELSE LET stashCreated == s0.git.dirty
           s1 == IF stashCreated
                 THEN [Emit(s0, "stash") EXCEPT !.git.stashes = @ + 1,
                                                !.git.dirty = FALSE]
                 ELSE s0
           s2 == UpdateState(s1, [status |-> "rollback", error |-> err,
                                  stashCreated |-> stashCreated])
           s3 == [Emit(s2, "sequence") EXCEPT !.restartRetries = 0,
                            !.hist.retryW = 0, !.hist.retryFailed = FALSE]
       IN ForkChild(s3, "rollback")

\* handleStartupFailure without the readState() check of line 558.
HandleStartupFailure_NoStateCheck(s, err, gitRes) ==
  IF s.restartRetries < MAX_RESTART_RETRIES
  THEN ForkChild([Emit(s, "sequence") EXCEPT !.restartRetries = @ + 1], "retry")
  ELSE PerformRollback([s EXCEPT !.hist.due = s.git.dirty], err, gitRes)

HandleStartupFailure(s, err, gitRes) ==
  IF s.restartRetries < MAX_RESTART_RETRIES
  THEN ForkChild([Emit(s, "sequence") EXCEPT !.restartRetries = @ + 1], "retry")
  ELSE IF ~s.stateFile.exists
  THEN [Emit(s, "exit1") EXCEPT !.proc = "exit1"]
  ELSE PerformRollback([s EXCEPT !.hist.due = s.git.dirty], err, gitRes)

\* ------------------------------------------------------------ ready
\* restoreStash: pop the launcher's stash if one is listed.
RestoreStash(s, gitRes) ==
  IF s.git.stashes = 0 THEN s
  ELSE IF gitRes = "fail"
  THEN [GitFailure(s) EXCEPT !.git.dirty = TRUE]
  ELSE [Emit(s, "pop") EXCEPT !.git.stashes = @ - 1, !.git.dirty = TRUE]

\* notifyChildOfState: child.send({type:'state'}) makes the current child
\* run handleRestartState once more.
NotifyChildOfState(s) ==
  IF s.child = 0 \/ ~s.stateFile.exists THEN s
  ELSE [Emit(s, "state_" \o s.stateFile.status)
          EXCEPT !.hrs[s.child] = IF @ < 2 THEN @ + 1 ELSE @]

ClearReadyTimeout(s) ==
  IF s.readyTimeout # 0
  THEN [s EXCEPT !.timers = @ \ {s.readyTimeout}, !.readyTimeout = 0]
  ELSE s

\* The commit of a verified restart without the `if (status)` of line 461.
CommitVerified_Always(s, gitRes) ==
  IF gitRes = "fail"
  THEN GitFailure(s)
  ELSE [Emit(s, "commit") EXCEPT !.git.commits = @ + 1, !.git.dirty = FALSE]

\* The try block of the restarting branch: commit everything when
\* `git status --porcelain` lists something; a failing git command is caught.
CommitVerified(s, gitRes) ==
  IF gitRes = "fail"
  THEN GitFailure(s)
  ELSE IF s.git.dirty
  THEN [Emit(s, "commit") EXCEPT !.git.commits = @ + 1, !.git.dirty = FALSE]
  ELSE s

\* A ready handler that stamps every state it finds as a success.
HandleChildReady_AlwaysSuccess(s, gitRes) ==
  LET s1 == [ClearReadyTimeout(s) EXCEPT !.restartRetries = 0,
                                        !.hist.retryW = 0, !.hist.retryFailed = FALSE]
      st == s1.stateFile
  IN
  IF ~st.exists THEN s1
  ELSE LET s2 ==
             IF st.status = "restarting"
             THEN UpdateState(CommitVerified(s1, gitRes), [status |-> "success"])
             ELSE IF st.status = "rollback" /\ st.stashCreated
             THEN UpdateState(RestoreStash(s1, gitRes), [status |-> "success"])
             ELSE UpdateState(s1, [status |-> "success"])
       IN [NotifyChildOfState(s2) EXCEPT !.cleanupTimers = @ + 1]

\* A ready handler that commits the tree whatever the persisted status is.
HandleChildReady_CommitAnyStatus(s, gitRes) ==
  LET s1 == [ClearReadyTimeout(s) EXCEPT !.restartRetries = 0,
                                        !.hist.retryW = 0, !.hist.retryFailed = FALSE]
      st == s1.stateFile
  IN
  IF ~st.exists THEN s1
  ELSE LET s2 ==
             IF st.status = "restarting"
             THEN UpdateState(CommitVerified(s1, gitRes), [status |-> "success"])
             ELSE IF st.status = "rollback" /\ st.stashCreated
             THEN CommitVerified(RestoreStash(s1, gitRes), gitRes)
             ELSE CommitVerified(s1, gitRes)
       IN [NotifyChildOfState(s2) EXCEPT !.cleanupTimers = @ + 1]

HandleChildReady(s, gitRes) ==
  LET s1 == [ClearReadyTimeout(s) EXCEPT !.restartRetries = 0,
                                        !.hist.retryW = 0, !.hist.retryFailed = FALSE]
      st == s1.stateFile
  IN
  IF ~st.exists THEN s1
  ELSE LET s2 ==
             IF st.status = "restarting"
             THEN UpdateState(CommitVerified(s1, gitRes), [status |-> "success"])
             ELSE IF st.status = "rollback" /\ st.stashCreated
             THEN RestoreStash(s1, gitRes)
             ELSE s1
       IN [NotifyChildOfState(s2) EXCEPT !.cleanupTimers = @ + 1]

\* ------------------------------------------------------------ restart request
HandleRestartRequest(s) ==
  PerformRestart(IF ~s.stateFile.exists
                 THEN [s EXCEPT !.stateFile = RestartingState(<<>>, <<>>)]
                 ELSE s)

\* ------------------------------------------------------------ IPC messages
\* What a worker may send: the four types of the protocol's switch, an object
\* of another type, and a value that is not an object.
IpcTypes == {"ready", "restart", "error", "other", "notObject"}

Ignored == IpcTypes \ {"ready", "restart"}

\* A dispatcher for which an error report is a startup failure.
HandleChildMessage_ErrorFatal(s, type, gitRes) ==
  CASE type = "ready" -> HandleChildReady(s, gitRes)
    [] type = "restart" -> HandleRestartRequest(s)
    [] type = "error" -> HandleStartupFailure(s, "exit", gitRes)
    [] OTHER -> s

\* handleChildMessage(msg)
HandleChildMessage(s, type, gitRes) ==
  CASE type = "ready" -> HandleChildReady(s, gitRes)
    [] type = "restart" -> HandleRestartRequest(s)
    [] OTHER -> s

\* ------------------------------------------------------------ exit
HandleChildExit(s, code, gitRes) ==
  LET s1 == [ClearReadyTimeout(s) EXCEPT !.child = 0] IN
  IF s1.isShuttingDown \/ s1.isRestarting THEN s1
  ELSE IF code = 0 THEN PerformRestart(Emit(s1, "exit0"))
  ELSE HandleStartupFailure(s1, "exit", gitRes)

\* ------------------------------------------------------------ shutdown
ShutdownFinish(s) == [ClearReadyTimeout(s) EXCEPT !.proc = "exit0"]

Shutdown(s) ==
  IF s.isShuttingDown THEN s
  ELSE LET s1 == [s EXCEPT !.isShuttingDown = TRUE] IN
       IF s1.child # 0 THEN KillChild(s1, "shutdownAfterKill")
       ELSE ShutdownFinish(s1)

\* ------------------------------------------------------------ killChild cleanup
\* cleanup() of the k-th pending killChild: this.child = null; resolve().
Cleanup(s, k) ==
  [s EXCEPT !.child = 0,
            !.microtasks = Append(@, s.kills[k].cont),
            !.kills = SubSeq(@, 1, k - 1) \o SubSeq(@, k + 1, Len(@))]

RECURSIVE CleanupAll(_, _)
\* The once('exit') listeners of worker w, in registration order.
CleanupAll(s, w) ==
  IF \E k \in 1..Len(s.kills) : s.kills[k].w = w
  THEN LET k == CHOOSE i \in 1..Len(s.kills) :
                  /\ s.kills[i].w = w
                  /\ \A j \in 1..(i - 1) : s.kills[j].w # w
       IN CleanupAll(Cleanup(s, k), w)
  ELSE s

\* A continuation resumed from the microtask queue.
RunContinuation(s, cont) ==
  CASE cont = "restartAfterKill" -> ForkChild(s, "restart")
    [] cont = "forkRestart"      -> AfterFork(Fork(s, "restart"), "restart")
    [] cont = "forkRetry"        -> Fork(s, "retry")
    [] cont = "forkRollback"     -> Fork(s, "rollback")
    [] cont = "restartFinally"   -> [s EXCEPT !.isRestarting = FALSE]
    [] cont = "shutdownAfterKill" -> ShutdownFinish(s)

\* ------------------------------------------------------------ unpacking
RECURSIVE Drain(_)
\* The microtask queue is drained before the next task runs.
Drain(s) ==
  IF s.microtasks = <<>> \/ s.proc # "running" \/ s.overflow
  THEN s
  ELSE Drain(RunContinuation([s EXCEPT !.microtasks = Tail(@)], Head(s.microtasks)))

\* The next state is what task `op` and the microtasks it queued leave.
Commit(task, op, w) ==
  \E t \in {Drain(task)} :
  /\ ~t.overflow
  /\ child' = t.child
  /\ readyTimeout' = t.readyTimeout
  /\ restartRetries' = t.restartRetries
  /\ isShuttingDown' = t.isShuttingDown
  /\ isRestarting' = t.isRestarting
  /\ proc' = t.proc
  /\ timers' = t.timers
  /\ kills' = t.kills
  /\ cleanupTimers' = t.cleanupTimers
  /\ workers' = t.workers
  /\ killed' = t.killed
  /\ ipc' = t.ipc
  /\ hrs' = t.hrs
  /\ nextW' = t.nextW
  /\ stateFile' = t.stateFile
  /\ git' = t.git
  /\ hist' = t.hist
  /\ last' = [op |-> op, ev |-> t.ev]
  /\ UNCHANGED <<bvars, dvars, svars, rvars, pvars, fvars, tvars, cvars>>

GitResults == {"ok", "fail"}
ExitCodes == {0, 1}          \* 0: process.exit(0); 1: any other code, or a signal (code null)

Alive(w) == workers[w] \in {"starting", "ready"}

LauncherIdle == proc = "running"

\* ------------------------------------------------------------ initial state
LauncherInit ==
  /\ child = 0
  /\ readyTimeout = 0
  /\ restartRetries = 0
  /\ isShuttingDown = FALSE
  /\ isRestarting = FALSE
  /\ proc = "init"
  /\ timers = {}
  /\ kills = <<>>
  /\ cleanupTimers = 0
  /\ workers = [w \in Workers |-> "none"]
  /\ killed = {}
  /\ ipc = {}
  /\ hrs = [w \in Workers |-> 0]
  /\ nextW = 1
  \* a state file left by an earlier run may exist when the launcher starts
  /\ stateFile \in {NoFile, RestartingState(<<"c1">>, <<"m1">>)}
  /\ git \in [dirty : BOOLEAN, stashes : {0}, commits : {0}]
  /\ hist = [retryW |-> 0, retryFailed |-> FALSE, due |-> FALSE,
             gitFailed |-> FALSE, disturbances |-> 0]
  /\ last = [op |-> "init", ev |-> {}]

\* ------------------------------------------------------------ launcher tasks
\* launcher.start(): forkChild with no child.
Start ==
  /\ proc = "init"
  /\ Commit(ForkChild([LS EXCEPT !.proc = "running"], "start"), "start", 0)

\* Worker w finishes main(): sends {type:'ready'} and arms its own 5 s
\* handleRestartState timer; the launcher runs handleChildReady.
WorkerReady(w) ==
  /\ LauncherIdle
  /\ workers[w] = "starting"
  /\ \E g \in GitResults :
       Commit(HandleChildMessage([LS EXCEPT !.workers[w] = "ready", !.hrs[w] = 1],
                                 "ready", g),
              "ready", w)

\* Worker w handles a /restart chat command: writes the state file, then
\* sends {type:'restart'}.
WorkerRestartCommand(w) ==
  /\ proc = "running"
  /\ workers[w] = "ready"
  /\ w \notin ipc
  /\ Commit([Disturb(LS) EXCEPT !.stateFile = RestartingState(<<"c1">>, <<"m1">>),
                                !.ipc = @ \cup {w}], "restartCommand", w)

\* The launcher receives {type:'restart'} from worker w.
DeliverRestart(w) ==
  /\ LauncherIdle
  /\ w \in ipc
  /\ Commit(HandleChildMessage([LS EXCEPT !.ipc = @ \ {w}], "restart", "ok"),
            "restartRequest", w)

\* The launcher receives from worker w a message that is neither a ready nor
\* a restart.
DeliverOther(w, type) ==
  /\ LauncherIdle
  /\ Alive(w)
  /\ type \in Ignored
  /\ Commit(HandleChildMessage(LS, type, "ok"), "message", w)

\* Worker w exits (by itself, or after a signal): the 'exit' listeners run in
\* registration order, handleChildExit first, then the pending cleanups.
ChildExit(s, w, code, g) ==
  LET s0 == [s EXCEPT !.workers[w] = "exited",
                      !.ipc = @ \ {w},
                      !.hrs[w] = 0,
                      !.hist.retryFailed = @ \/ (code # 0 /\ w = s.hist.retryW)]
      s1 == HandleChildExit(s0, code, g)
  IN IF s1.proc = "running" THEN CleanupAll(s1, w) ELSE s1

WorkerExit(w, code) ==
  /\ LauncherIdle
  /\ Alive(w)
  /\ \E g \in GitResults : Commit(ChildExit(LS, w, code, g), "exit", w)

\* The startup timer armed for worker w fires.
StartupTimeout(w) ==
  /\ LauncherIdle
  /\ w \in timers
  /\ \E g \in GitResults :
       Commit(HandleStartupFailure([Disturb(LS) EXCEPT !.timers = @ \ {w},
                                             !.hist.retryFailed =
                                                @ \/ w = hist.retryW],
                                   "timeout", g),
              "timeout", w)

\* The force-kill timer of the k-th pending killChild fires (the worker has
\* not exited within GRACEFUL_SHUTDOWN_TIMEOUT): SIGKILL only if child.killed
\* is not set, then cleanup one second later.
ForceKill(s, k) ==
  LET w == s.kills[k].w IN
  IF w \notin s.killed
  THEN ChildExit(s, w, 1, "ok")
  ELSE Cleanup(s, k)

ForceKillTimeout(k) ==
  /\ LauncherIdle
  /\ k \in 1..Len(kills)
  /\ Commit(ForceKill(Disturb(LS), k), "forceKill", kills[k].w)

\* setTimeout(() => this.cleanupStateFile(), 3000) fires.
CleanupTimer ==
  /\ LauncherIdle
  /\ cleanupTimers > 0
  /\ Commit(CleanupStateFile([LS EXCEPT !.cleanupTimers = @ - 1]), "cleanupTimer", 0)

\* SIGINT / SIGTERM to the launcher.
Signal ==
  /\ LauncherIdle
  /\ ~isShuttingDown
  /\ Commit(Shutdown(Disturb(LS)), "signal", 0)

\* Worker w runs handleRestartState() (its 5 s timer, or a 'state' message):
\* for a final status it notifies the chats and deletes the state file.
HandleRestartState(s, w) ==
  LET s1 == [s EXCEPT !.hrs[w] = @ - 1] IN
  IF ~s1.stateFile.exists \/ s1.stateFile.status = "restarting"
  THEN s1
  ELSE [s1 EXCEPT !.stateFile = NoFile]

WorkerHandleRestartState(w) ==
  /\ proc = "running"
  /\ workers[w] = "ready"
  /\ hrs[w] > 0
  /\ Commit(HandleRestartState(LS, w), "handleRestartState", w)

\* The agent running in a ready worker edits files of the working tree.
EditFiles ==
  /\ proc = "running"
  /\ \E w \in Workers : workers[w] = "ready"
  /\ ~git.dirty
  /\ Commit([Disturb(LS) EXCEPT !.git.dirty = TRUE], "edit", 0)

LauncherNext ==
  \/ Start
  \/ \E w \in Workers : WorkerReady(w)
  \/ \E w \in Workers : WorkerRestartCommand(w)
  \/ \E w \in Workers : DeliverRestart(w)
  \/ \E w \in Workers, code \in ExitCodes : WorkerExit(w, code)
  \/ \E w \in Workers : StartupTimeout(w)
  \/ \E k \in 1..MaxWorkers : ForceKillTimeout(k)
  \/ CleanupTimer
  \/ Signal
  \/ \E w \in Workers : WorkerHandleRestartState(w)
  \/ EditFiles

\* The launcher with workers that also send the messages it ignores.
LauncherIpcNext ==
  \/ LauncherNext
  \/ \E w \in Workers, type \in Ignored : DeliverOther(w, type)

\* ======================================================= FeishuAgentBridge
\* const processingKey = threadId ? `${chatId}:${threadId}` : chatId
ProcessingKey(chatId, threadId) ==
  IF threadId # "" THEN chatId \o ":" \o threadId ELSE chatId

KeyOf(m) == ProcessingKey(msgs[m].chatId, msgs[m].threadId)

\* A variant of the busy test that looks at no key.
Busy_Never(key) == FALSE

\* A variant of the busy test that looks at every key.
Busy_AnyKey(key) == processingChats # {}

\* this.processingChats.has(processingKey)
Busy(key) == key \in processingChats

\* Between processingChats.add(key) and processingChats.delete(key).
Held(m) == pc[m] \in {"marked", "invoking", "finishing"}

BridgeInit ==
  /\ msgs = <<>>
  /\ pc = [m \in 1..MaxMsgs |-> "none"]
  /\ processingChats = {}
  /\ bhist = [invoked |-> <<>>, waited |-> {}, parallel |-> {}, ceilingReached |-> FALSE]

\* handleFeishuMessage(message) up to its first await that leaves the task:
\* empty content is ignored, /restart goes to handleRestartCommand, any other
\* message waits when its key is marked and marks it otherwise.
Arrive(c, t, content) ==
  /\ Len(msgs) < MaxMsgs
  /\ LET m == Len(msgs) + 1
         key == ProcessingKey(c, t)
         text == content # "" /\ content # "/restart"
     IN /\ msgs' = Append(msgs, [chatId |-> c, threadId |-> t, content |-> content])
        /\ pc' = [pc EXCEPT ![m] = IF content = "" THEN "ignored"
                                   ELSE IF content = "/restart" THEN "command"
                                   ELSE IF Busy(key) THEN "waiting"
                                   ELSE "marked"]
        /\ processingChats' = IF text /\ ~Busy(key)
                              THEN processingChats \cup {key}
                              ELSE processingChats
        /\ bhist' = [bhist EXCEPT
             !.waited = IF text /\ Busy(key) THEN @ \cup {m} ELSE @,
             !.parallel = IF text /\ \E o \in 1..Len(msgs) :
                                        /\ pc[o] = "invoking"
                                        /\ <<msgs[o].chatId, msgs[o].threadId>> # <<c, t>>
                          THEN @ \cup {m} ELSE @]
  /\ UNCHANGED <<lvars, dvars, svars, rvars, pvars, fvars, tvars, cvars>>

\* The setInterval callback of waiter m: when the key is no longer marked
\* the promise resolves, and the continuation (a microtask of this task)
\* marks the key.
PollTick(m) ==
  /\ pc[m] = "waiting"
  /\ IF Busy(KeyOf(m))
     THEN UNCHANGED <<pc, processingChats>>
     ELSE /\ pc' = [pc EXCEPT ![m] = "marked"]
          /\ processingChats' = processingChats \cup {KeyOf(m)}
  /\ UNCHANGED <<msgs, bhist, lvars, dvars, svars, rvars, pvars, fvars, tvars, cvars>>

\* A variant of the timeout callback that stops the polling and leaves the
\* promise unresolved.
Ceiling_NoResolve(m) ==
  /\ pc[m] = "waiting"
  /\ bhist' = [bhist EXCEPT !.ceilingReached = TRUE]
  /\ UNCHANGED <<msgs, pc, processingChats, lvars, dvars, svars, rvars, pvars, fvars, tvars, cvars>>

\* The 30 s setTimeout of waiter m fires while it still waits: the promise
\* resolves whatever the state of the key.
Ceiling(m) ==
  /\ pc[m] = "waiting"
  /\ pc' = [pc EXCEPT ![m] = "marked"]
  /\ processingChats' = processingChats \cup {KeyOf(m)}
  /\ bhist' = [bhist EXCEPT !.ceilingReached = TRUE]
  /\ UNCHANGED <<msgs, lvars, dvars, svars, rvars, pvars, fvars, tvars, cvars>>

\* Session lookup and typing indicator are done: the agent is invoked
\* (handleStreamingResponse / handleRegularResponse).
BeginInvoke(m) ==
  /\ pc[m] = "marked"
  /\ pc' = [pc EXCEPT ![m] = "invoking"]
  /\ bhist' = [bhist EXCEPT !.invoked = Append(@, m)]
  /\ UNCHANGED <<msgs, processingChats, lvars, dvars, svars, rvars, pvars, fvars, tvars, cvars>>

\* The agent invocation returns or throws; the error reply and the typing
\* indicator follow.
EndInvoke(m) ==
  /\ pc[m] = "invoking"
  /\ pc' = [pc EXCEPT ![m] = "finishing"]
  /\ UNCHANGED <<msgs, processingChats, bhist, lvars, dvars, svars, rvars, pvars, fvars, tvars, cvars>>

\* A variant of the end of handleFeishuMessage without the finally block.
Unmark_NoDelete(m) ==
  /\ pc[m] = "finishing"
  /\ pc' = [pc EXCEPT ![m] = "done"]
  /\ UNCHANGED <<msgs, processingChats, bhist, lvars, dvars, svars, rvars, pvars, fvars, tvars, cvars>>

\* finally { this.processingChats.delete(processingKey) }
Unmark(m) ==
  /\ pc[m] = "finishing"
  /\ pc' = [pc EXCEPT ![m] = "done"]
  /\ processingChats' = processingChats \ {KeyOf(m)}
  /\ UNCHANGED <<msgs, bhist, lvars, dvars, svars, rvars, pvars, fvars, tvars, cvars>>

BridgeNext ==
  \/ \E c \in Chats, t \in Threads, content \in Contents : Arrive(c, t, content)
  \/ \E m \in 1..MaxMsgs : PollTick(m)
  \/ \E m \in 1..MaxMsgs : Ceiling(m)
  \/ \E m \in 1..MaxMsgs : BeginInvoke(m)
  \/ \E m \in 1..MaxMsgs : EndInvoke(m)
  \/ \E m \in 1..MaxMsgs : Unmark(m)

\* ============================================ FeishuService message dedup
\* The sweep of isDuplicate: entries with now - ts > 30 min are deleted.
Sweep(cache, t) ==
  LET Fresh(e) == ~(t - e.ts > DedupTtl) IN SelectSeq(cache, Fresh)

\* A size limit that deletes the last key.
Evict_Newest(cache) ==
  IF Len(cache) >= DedupMax THEN SubSeq(cache, 1, Len(cache) - 1) ELSE cache

\* The size limit of isDuplicate: at capacity the first key is deleted.
Evict(cache) == IF Len(cache) >= DedupMax THEN Tail(cache) ELSE cache

Has(cache, id) == \E i \in 1..Len(cache) : cache[i].id = id

\* markSeen that records nothing.
MarkSeen_Nothing(cache, id, t) == cache

\* markSeen: delete, then set (the id moves to the end of the Map).
MarkSeen(cache, id, t) ==
  LET Other(e) == e.id # id IN Append(SelectSeq(cache, Other), [id |-> id, ts |-> t])

\* isDuplicate(msgId): the cache it leaves and its result.
IsDuplicate(cache, id, t) ==
  LET c == Evict(Sweep(cache, t)) IN [cache |-> c, duplicate |-> Has(c, id)]

DedupInit ==
  /\ messageCache = <<>>
  /\ now = 0
  /\ delivery = [n |-> 0, id |-> 0, at |-> 0, duplicate |-> FALSE, callback |-> FALSE]
  /\ dhist = [seenAt |-> [i \in MsgIds |-> -1], since |-> [i \in MsgIds |-> 0]]

\* handleMessage(data): a duplicate is dropped; any other delivery is marked
\* seen and, when it carries content, handed to the message callback.
HandleMessage(id, hasContent) ==
  /\ delivery.n < MaxDeliveries
  /\ LET d == IsDuplicate(messageCache, id, now) IN
     /\ messageCache' = IF d.duplicate THEN d.cache ELSE MarkSeen(d.cache, id, now)
     /\ delivery' = [n |-> delivery.n + 1, id |-> id, at |-> now,
                     duplicate |-> d.duplicate,
                     callback |-> ~d.duplicate /\ hasContent]
     /\ dhist' = IF d.duplicate THEN dhist
                 ELSE [seenAt |-> [dhist.seenAt EXCEPT ![id] = now],
                       since |-> [i \in MsgIds |->
                                    IF i = id THEN 0
                                    ELSE IF dhist.since[i] < DedupMax
                                    THEN dhist.since[i] + 1 ELSE dhist.since[i]]]
  /\ UNCHANGED <<now, lvars, bvars, svars, rvars, pvars, fvars, tvars, cvars>>

\* Time passes.
Tick ==
  /\ now < MaxTime
  /\ now' = now + 1
  /\ UNCHANGED <<messageCache, delivery, dhist, lvars, bvars, svars, rvars, pvars, fvars, tvars, cvars>>

DedupNext ==
  \/ \E id \in MsgIds, hasContent \in BOOLEAN : HandleMessage(id, hasContent)
  \/ Tick

\* ================================================== bridge session registry
\* The session part of handleFeishuMessage, taken one message at a time (the
\* per-key serialisation is the subject of the bridge section above).
SessionPrefix == "feishu_"

Conversations == SessionChats \X SessionThreads

\* sessionKey of getOrCreateSessionId; an empty threadId is falsy.
SessionKey(chatId, threadId) ==
  IF threadId # "" THEN chatId \o ":" \o threadId ELSE chatId

SessionIdOf(chatId, threadId) ==
  IF threadId # "" THEN SessionPrefix \o chatId \o "_" \o threadId
                   ELSE SessionPrefix \o chatId

MapHas(key) == \E e \in chatToSessionMap : e.key = key

MapGet(key) == (CHOOSE e \in chatToSessionMap : e.key = key).id

\* SessionManager.createSession: the entry of the id is set to a session with
\* no messages, whether or not one existed.
CreateSession(ss, id) ==
  [x \in DOMAIN ss \cup {id} |-> IF x = id THEN 0 ELSE ss[x]]

\* What getOrCreateSessionId returns and leaves behind.
GetOrCreateSessionId(chatId, threadId) ==
  LET key == SessionKey(chatId, threadId) IN
  IF MapHas(key)
    THEN [id |-> MapGet(key), map |-> chatToSessionMap, ss |-> sessions,
          created |-> FALSE]
    ELSE LET id == SessionIdOf(chatId, threadId) IN
         [id |-> id, map |-> chatToSessionMap \cup {[key |-> key, id |-> id]},
          ss |-> CreateSession(sessions, id), created |-> TRUE]

SessionInit ==
  /\ chatToSessionMap = {}
  /\ sessions = << >>
  /\ shist = [n |-> 0, returned |-> {},
              creates |-> [c \in Conversations |-> 0], lost |-> FALSE]

\* One message of a conversation goes through handleFeishuMessage: the
\* session id is looked up or created and the agent run adds a turn to the
\* session's history.
SessionMessage(chatId, threadId) ==
  /\ shist.n < MaxSessionCalls
  /\ LET r == GetOrCreateSessionId(chatId, threadId) IN
      /\ chatToSessionMap' = r.map
      /\ sessions' = [r.ss EXCEPT ![r.id] = @ + 1]
      /\ shist' = [n |-> shist.n + 1,
                   returned |-> shist.returned \cup
                     {[chatId |-> chatId, threadId |-> threadId, id |-> r.id]},
                   creates |-> [shist.creates EXCEPT ![<<chatId, threadId>>] =
                                  IF r.created THEN @ + 1 ELSE @],
                   lost |-> shist.lost \/
                     (r.created /\ r.id \in DOMAIN sessions /\ sessions[r.id] > 0)]
  /\ UNCHANGED <<lvars, bvars, dvars, rvars, pvars, fvars, tvars, cvars>>

\* stop(), as the POST /restart route calls it before start() on the same
\* bridge: the maps are cleared, the agent engine keeps its sessions.
StopBridge ==
  /\ shist.n < MaxSessionCalls
  /\ chatToSessionMap # {}
  /\ chatToSessionMap' = {}
  /\ shist' = [shist EXCEPT !.n = @ + 1]
  /\ UNCHANGED <<sessions, lvars, bvars, dvars, rvars, pvars, fvars, tvars, cvars>>

SessionNext ==
  \/ \E c \in SessionChats, t \in SessionThreads : SessionMessage(c, t)
  \/ StopBridge

\* ================================================ agent invocation, replies
\* What handleFeishuMessage does between the typing indicator and its removal:
\* handleStreamingResponse or handleRegularResponse, down to ClaudeEngine.
Invocations == 1..MaxInvocations

Deltas == {"", "a", "b"}

NoHistory ==
  [failed |-> {}, answers |-> [m \in Invocations |-> 0],
   errors |-> [m \in Invocations |-> 0], deltas |-> [m \in Invocations |-> << >>]]

ReplyInit ==
  /\ enableStreaming \in BOOLEAN
  /\ streamHandler = 0
  /\ inv = [m \in Invocations |-> "idle"]
  /\ rhist = NoHistory
  /\ inbound \in [Invocations -> Threads]
  /\ fullResponse = [m \in Invocations |-> ""]
  /\ outbox = {}

\* const replyMessageId = message.threadId ? message.messageId : undefined
\* (a message id is the message's number, 0 = undefined).
ReplyMessageId(m) == IF inbound[m] # "" THEN m ELSE 0

\* feishuService.sendMessage(chatId of m, text, replyTo, threadId of m); R is
\* the pair of the history and the outbox.
SendAnswer(R, m, text, replyTo) ==
  [h |-> [R.h EXCEPT !.answers[m] = @ + 1],
   o |-> R.o \cup {[to |-> m, kind |-> "answer", text |-> text, replyTo |-> replyTo]}]

\* sendErrorResponse for message m: FeishuService.sendMessage is called once
\* with the error text (it never throws).
SendErrorResponse(R, m, replyTo) ==
  [h |-> [R.h EXCEPT !.errors[m] = @ + 1],
   o |-> R.o \cup {[to |-> m, kind |-> "error", text |-> "", replyTo |-> replyTo]}]

\* streamHandler.handleEvent({type: 'error'}): onError of the handlers held,
\* which reply with the replyMessageId of their own message.
HandleErrorEvent(R) ==
  IF streamHandler = 0 THEN R
  ELSE SendErrorResponse(R, streamHandler, ReplyMessageId(streamHandler))

\* AgentEngine.sendMessage / sendMessageStream up to `await getTools()`.
InvokeAgent(m) ==
  /\ inv[m] = "idle"
  /\ inv' = [inv EXCEPT ![m] = "tools"]
  /\ UNCHANGED <<enableStreaming, streamHandler, rhist, inbound, fullResponse, outbox,
                 lvars, bvars, dvars, svars, pvars, fvars, tvars, cvars>>

\* getTools() resolved: the streaming path installs the message's handlers
\* in the engine's one StreamHandler; the Claude query starts.
ToolsReady(m) ==
  /\ inv[m] = "tools"
  /\ inv' = [inv EXCEPT ![m] = "query"]
  /\ streamHandler' = IF enableStreaming THEN m ELSE streamHandler
  /\ UNCHANGED <<enableStreaming, rhist, inbound, fullResponse, outbox,
                 lvars, bvars, dvars, svars, pvars, fvars, tvars, cvars>>

RECURSIVE DeltaCount(_, _)
DeltaCount(h, n) == IF n = 0 THEN 0 ELSE Len(h.deltas[n]) + DeltaCount(h, n - 1)

\* onContentDelta of message m: fullResponse += textDelta.
StreamDelta(m, textDelta) ==
  /\ enableStreaming
  /\ inv[m] = "query"
  /\ DeltaCount(rhist, MaxInvocations) < MaxDeltas
  /\ fullResponse' = [fullResponse EXCEPT ![m] = @ \o textDelta]
  /\ rhist' = [rhist EXCEPT !.deltas[m] = Append(@, textDelta)]
  /\ UNCHANGED <<enableStreaming, streamHandler, inv, inbound, outbox,
                 lvars, bvars, dvars, svars, pvars, fvars, tvars, cvars>>

\* The query ends with a result. Streaming: onContentStop sends fullResponse
\* if it is not empty. Batch: the answer, or an error reply for an empty one.
AgentSucceeds(m, empty) ==
  /\ inv[m] = "query"
  /\ enableStreaming => empty = (fullResponse[m] = "")
  /\ inv' = [inv EXCEPT ![m] = "done"]
  /\ LET R == [h |-> rhist, o |-> outbox]
         R1 == IF enableStreaming
               THEN IF fullResponse[m] # ""
                    THEN SendAnswer(R, m, fullResponse[m], ReplyMessageId(m))
                    ELSE R
               ELSE IF ~empty THEN SendAnswer(R, m, "a", ReplyMessageId(m))
               ELSE SendErrorResponse(R, m, ReplyMessageId(m))
     IN rhist' = R1.h /\ outbox' = R1.o
  /\ UNCHANGED <<enableStreaming, streamHandler, inbound, fullResponse,
                 lvars, bvars, dvars, svars, pvars, fvars, tvars, cvars>>

\* ClaudeEngine.sendMessageStream, after onContentStop: when the result is
\* empty and an assistant message was seen, its text is handed to
\* onContentDelta once more.
LateDelta(m, textDelta) ==
  /\ enableStreaming
  /\ inv[m] = "done" /\ m \notin rhist.failed
  /\ fullResponse[m] = "" /\ textDelta # ""
  /\ fullResponse' = [fullResponse EXCEPT ![m] = @ \o textDelta]
  /\ UNCHANGED <<enableStreaming, streamHandler, inv, rhist, inbound, outbox,
                 lvars, bvars, dvars, svars, pvars, fvars, tvars, cvars>>

\* The query throws. Streaming: ClaudeEngine's catch calls the message's
\* onError and rethrows, AgentEngine's catch hands an error event to the
\* StreamHandler and swallows the exception. Batch: both catches rethrow and
\* handleFeishuMessage's catch calls sendErrorResponse with message.messageId.
AgentFails(m) ==
  /\ inv[m] = "query"
  /\ inv' = [inv EXCEPT ![m] = "done"]
  /\ LET R == [h |-> [rhist EXCEPT !.failed = @ \cup {m}], o |-> outbox]
         R1 == IF enableStreaming
               THEN HandleErrorEvent(SendErrorResponse(R, m, ReplyMessageId(m)))
               ELSE SendErrorResponse(R, m, m)
     IN rhist' = R1.h /\ outbox' = R1.o
  /\ UNCHANGED <<enableStreaming, streamHandler, inbound, fullResponse,
                 lvars, bvars, dvars, svars, pvars, fvars, tvars, cvars>>

ReplyNext ==
  \/ \E m \in Invocations : InvokeAgent(m)
  \/ \E m \in Invocations : ToolsReady(m)
  \/ \E m \in Invocations, textDelta \in Deltas : StreamDelta(m, textDelta)
  \/ \E m \in Invocations, empty \in BOOLEAN : AgentSucceeds(m, empty)
  \/ \E m \in Invocations, textDelta \in Deltas : LateDelta(m, textDelta)
  \/ \E m \in Invocations : AgentFails(m)

\* ===================================== FeishuService.sendMessage, long text
Chars == {"a", " ", "\n"}

Whitespace == {" ", "\n"}

Limits == MinLimit..MaxLimit

Texts == UNION {[1..n -> Chars] : n \in 0..MaxTextLen}

Max(S) == CHOOSE x \in S : \A y \in S : y <= x

\* String.prototype.lastIndexOf(sub, from), 0-based; -1 when there is none.
LastIndexOf(r, sub, from) ==
  LET at == {i \in 0..from : /\ i + Len(sub) <= Len(r)
                             /\ SubSeq(r, i + 1, i + Len(sub)) = sub}
  IN IF at = {} THEN -1 ELSE Max(at)

\* String.prototype.slice(from, to) with 0 <= from <= to.
Slice(r, from, to) ==
  SubSeq(r, from + 1, IF to < Len(r) THEN to ELSE Len(r))

\* String.prototype.trim().
Trim(r) ==
  LET ink == {i \in 1..Len(r) : r[i] \notin Whitespace}
  IN IF ink = {} THEN << >>
     ELSE SubSeq(r, CHOOSE i \in ink : \A j \in ink : i <= j, Max(ink))

\* idx < maxLen * 0.3
BelowThreshold(idx, maxLen) == 10 * idx < 3 * maxLen

\* Where the while loop of splitAtParagraphs cuts `remaining`.
CutIndex(remaining, maxLen) ==
  LET para == LastIndexOf(remaining, <<"\n", "\n">>, maxLen)
      line == IF BelowThreshold(para, maxLen)
                THEN LastIndexOf(remaining, <<"\n">>, maxLen) ELSE para
  IN IF BelowThreshold(line, maxLen) THEN maxLen ELSE line

RECURSIVE SplitLoop(_, _, _)
SplitLoop(chunks, remaining, maxLen) ==
  IF Len(remaining) > maxLen
    THEN LET idx == CutIndex(remaining, maxLen) IN
         SplitLoop(Append(chunks, Trim(Slice(remaining, 0, idx))),
                   Trim(Slice(remaining, idx, Len(remaining))), maxLen)
    ELSE IF remaining # << >> THEN Append(chunks, remaining) ELSE chunks

SplitAtParagraphs(text, maxLen) ==
  IF Len(text) <= maxLen THEN <<text>> ELSE SplitLoop(<< >>, text, maxLen)

SendInit ==
  /\ processedText \in Texts
  /\ limit \in Limits
  /\ anchor \in {"", "m1"}
  /\ sent = << >>

\* sendMessage with a text that fits one card (or one plain text message).
SendShort ==
  /\ sent = << >>
  /\ Len(processedText) <= limit
  /\ sent' = <<[text |-> processedText, replyTo |-> anchor]>>
  /\ UNCHANGED <<processedText, limit, anchor, lvars, bvars, dvars, svars, rvars, fvars, tvars, cvars>>

\* sendMessage with a longer text: one card per chunk, the first as a reply
\* to messageId, the others as new messages.
SendLong ==
  /\ sent = << >>
  /\ Len(processedText) > limit
  /\ LET chunks == SplitAtParagraphs(processedText, limit) IN
     sent' = [i \in 1..Len(chunks) |->
                [text |-> chunks[i], replyTo |-> IF i = 1 THEN anchor ELSE ""]]
  /\ UNCHANGED <<processedText, limit, anchor, lvars, bvars, dvars, svars, rvars, fvars, tvars, cvars>>

SendNext ==
  \/ SendShort
  \/ SendLong

\* ============================================ readers of the state file
\* The launcher's readState and the worker's handleRestartState run in two
\* processes over one file; each first tests existsSync and then reads. The
\* worker runs handleRestartState on the launcher's 'state' message and on
\* its own 5 s timer.
WorkerRuns == {"stateMessage", "timer"}

Readers == {"launcher"} \cup WorkerRuns

\* Contents JSON.parse accepts and that are a RestartState, by status.
WellFormed == {"restarting", "success", "rollback"}

\* "unreadable": readFileSync throws. "garbage": JSON.parse throws.
\* "jsonNull", "emptyObject", "unknownStatus": JSON.parse returns null, {},
\* or an object with chatIds and messageIds whose status is none of the three.
FileContents ==
  {"missing", "unreadable", "garbage", "jsonNull", "emptyObject", "unknownStatus"}
    \cup WellFormed

\* readFileSync or JSON.parse throws.
ReadThrows(content) == content \in {"missing", "unreadable", "garbage"}

ReaderIdle == [pc |-> "idle", saw |-> "", gen |-> 0, result |-> "",
               notified |-> FALSE, deleted |-> "", escaped |-> FALSE]

ReaderInit ==
  /\ disk \in FileContents
  /\ connected \in BOOLEAN
  /\ rd = [r \in Readers |-> ReaderIdle]
  /\ generation = 0

\* existsSync(STATE_FILE) of reader r.
ExistsCheck(r) ==
  /\ rd[r].pc = "idle"
  /\ rd' = [rd EXCEPT ![r] =
       IF disk = "missing"
         THEN [@ EXCEPT !.pc = "done", !.saw = "missing",
                        !.result = IF r = "launcher" THEN "null" ELSE "returned"]
         ELSE [@ EXCEPT !.pc = "read"]]
  /\ UNCHANGED <<disk, connected, generation,
                 lvars, bvars, dvars, svars, rvars, pvars, tvars, cvars>>

\* readState after existsSync returned true: the parsed value is returned
\* as it is; an exception is caught, the file removed and null returned.
ReadState ==
  /\ rd["launcher"].pc = "read"
  /\ rd' = [rd EXCEPT !["launcher"] =
       [@ EXCEPT !.pc = "done", !.saw = disk,
                 !.result = IF ReadThrows(disk) \/ disk = "jsonNull"
                            THEN "null" ELSE "state"]]
  /\ disk' = IF ReadThrows(disk) THEN "missing" ELSE disk
  /\ UNCHANGED <<connected, generation,
                 lvars, bvars, dvars, svars, rvars, pvars, tvars, cvars>>

\* Does handleRestartState reach bridge.sendMessageToChat with this content?
\* null has no status and {} has no chatIds (TypeError, caught); restarting
\* and a bridge that is not connected return before.
Notifies(content) ==
  /\ ~ReadThrows(content)
  /\ content \notin {"jsonNull", "emptyObject", "restarting"}
  /\ connected

\* handleRestartState after existsSync returned true, up to its first
\* await: the file is read and, for a state it notifies, the notification
\* of the recorded chat is handed to bridge.sendMessageToChat.
HandleRestartStateRead(r) ==
  /\ r \in WorkerRuns
  /\ rd[r].pc = "read"
  /\ rd' = [rd EXCEPT ![r] =
       [@ EXCEPT !.pc = IF Notifies(disk) THEN "sending" ELSE "done",
                 !.saw = disk, !.gen = generation, !.result = "returned",
                 !.notified = Notifies(disk)]]
  /\ UNCHANGED <<disk, connected, generation,
                 lvars, bvars, dvars, svars, rvars, pvars, tvars, cvars>>

\* The sends of run r are over: unlinkSync(STATE_FILE), whatever the file
\* holds by now; when it is gone the exception is caught.
Unlink(r) ==
  /\ r \in WorkerRuns
  /\ rd[r].pc = "sending"
  /\ rd' = [rd EXCEPT ![r] = [@ EXCEPT !.pc = "done", !.deleted = disk]]
  /\ disk' = "missing"
  /\ UNCHANGED <<connected, generation,
                 lvars, bvars, dvars, svars, rvars, pvars, tvars, cvars>>

\* The other process (or a /restart command in this one) removes or rewrites
\* the file.
FileChanges(content) ==
  /\ generation < MaxRewrites
  /\ disk # content
  /\ disk' = content
  /\ generation' = generation + 1
  /\ UNCHANGED <<connected, rd, lvars, bvars, dvars, svars, rvars, pvars, tvars, cvars>>

ReaderNext ==
  \/ \E r \in Readers : ExistsCheck(r)
  \/ ReadState
  \/ \E r \in WorkerRuns : HandleRestartStateRead(r)
  \/ \E r \in WorkerRuns : Unlink(r)
  \/ \E content \in FileContents : FileChanges(content)

\* ================================================== the working indicator
\* handleFeishuMessage's two sendTyping calls around the invocation, with the
\* maps of FeishuService they go through. A reaction id is the number of the
\* message whose sendTyping created it.
NoReaction == [msg |-> 0, reaction |-> 0]

TypingRest ==
  /\ tmsgs = << >>
  /\ tpc = [m \in 1..MaxTypingMsgs |-> "none"]
  /\ lastMessageIdByChat = [c \in Chats |-> 0]
  /\ typingReactionByChat = [c \in Chats |-> NoReaction]
  /\ reactions = {}

InFlight(m) == tpc[m] = "typing"

KeyBusy(c, t) ==
  \E o \in 1..Len(tmsgs) : InFlight(o) /\ tmsgs[o] = [chatId |-> c, threadId |-> t]

\* sendTyping(chatId, true): a reaction on the last message of the chat;
\* addReaction returns null when the call fails.
ReactionsAfterOn(m, c, lastMsgId, ok) ==
  IF lastMsgId # 0 /\ ok
  THEN reactions \cup {[msg |-> lastMsgId, reaction |-> m]}
  ELSE reactions

StoredAfterOn(m, c, lastMsgId, ok) ==
  IF lastMsgId # 0 /\ ok
  THEN [typingReactionByChat EXCEPT ![c] = [msg |-> lastMsgId, reaction |-> m]]
  ELSE typingReactionByChat

\* FeishuService.handleMessage records the message as the last one of its
\* chat and calls handleFeishuMessage, which in the same task either starts
\* to wait (key marked) or marks the key and calls sendTyping(chatId, true).
TypingArrive(c, t, ok) ==
  /\ Len(tmsgs) < MaxTypingMsgs
  /\ LET m == Len(tmsgs) + 1 IN
     /\ tmsgs' = Append(tmsgs, [chatId |-> c, threadId |-> t])
     /\ lastMessageIdByChat' = [lastMessageIdByChat EXCEPT ![c] = m]
     /\ IF KeyBusy(c, t)
        THEN /\ tpc' = [tpc EXCEPT ![m] = "waiting"]
             /\ UNCHANGED <<typingReactionByChat, reactions>>
        ELSE /\ tpc' = [tpc EXCEPT ![m] = "typing"]
             /\ reactions' = ReactionsAfterOn(m, c, m, ok)
             /\ typingReactionByChat' = StoredAfterOn(m, c, m, ok)
  /\ UNCHANGED <<lvars, bvars, dvars, svars, rvars, pvars, fvars, cvars>>

\* The wait of m ends, the key being free or the 30 s ceiling reached: m
\* marks the key and calls sendTyping(chatId, true).
TypingProceed(m, ceiling, ok) ==
  /\ tpc[m] = "waiting"
  /\ ceiling \/ ~KeyBusy(tmsgs[m].chatId, tmsgs[m].threadId)
  /\ tpc' = [tpc EXCEPT ![m] = "typing"]
  /\ LET c == tmsgs[m].chatId IN
     /\ reactions' = ReactionsAfterOn(m, c, lastMessageIdByChat[c], ok)
     /\ typingReactionByChat' = StoredAfterOn(m, c, lastMessageIdByChat[c], ok)
  /\ UNCHANGED <<tmsgs, lastMessageIdByChat, lvars, bvars, dvars, svars, rvars, pvars, fvars, cvars>>

\* The invocation of m is over, with a reply or an error reply; the finally
\* block calls sendTyping(chatId, false): the reaction stored for the chat is
\* removed and the entry deleted.
SendTypingOff(m) ==
  /\ tpc[m] = "typing"
  /\ tpc' = [tpc EXCEPT ![m] = "done"]
  /\ LET c == tmsgs[m].chatId
         stored == typingReactionByChat[c]
     IN /\ reactions' = reactions \ {stored}
        /\ typingReactionByChat' = [typingReactionByChat EXCEPT ![c] = NoReaction]
  /\ UNCHANGED <<tmsgs, lastMessageIdByChat, lvars, bvars, dvars, svars, rvars, pvars, fvars, cvars>>

TypingNext ==
  \/ \E c \in Chats, t \in Threads, ok \in BOOLEAN : TypingArrive(c, t, ok)
  \/ \E m \in 1..MaxTypingMsgs, ceiling, ok \in BOOLEAN : TypingProceed(m, ceiling, ok)
  \/ \E m \in 1..MaxTypingMsgs : SendTypingOff(m)

\* ============================================ SessionManager, context length
Roles == {"user", "assistant", "system"}

\* Message texts by their number of Chinese and of other characters.
SessionTexts == {[zh |-> 0, en |-> 1], [zh |-> 1, en |-> 3]}

\* estimateTokenCount: Math.ceil(chineseChars * 1.5 + englishChars * 0.25).
EstimateTokenCount(msg) == (6 * msg.text.zh + msg.text.en + 3) \div 4

RECURSIVE SumEstimates(_)
SumEstimates(ms) ==
  IF ms = << >> THEN 0 ELSE EstimateTokenCount(Head(ms)) + SumEstimates(Tail(ms))

\* messages.slice(-n)
LastN(ms, n) == SubSeq(ms, Max({1, Len(ms) - n + 1}), Len(ms))

IsSystem(msg) == msg.role = "system"

\* compressContext(session); S is [messages, contextLength].
CompressContext(S) ==
  IF Len(S.messages) <= CompressMin THEN S
  ELSE LET kept == SelectSeq(S.messages, IsSystem) \o LastN(S.messages, KeepRecent)
       IN [messages |-> kept, contextLength |-> SumEstimates(kept)]

\* createSession: no messages, contextLength 0.
ContextInit ==
  /\ messages = << >>
  /\ contextLength = 0
  /\ pushed = 0

\* addMessage(sessionId, message)
AddMessage(role, text) ==
  /\ pushed < MaxPushes
  /\ pushed' = pushed + 1
  /\ LET message == [n |-> pushed + 1, role |-> role, text |-> text]
         S1 == [messages |-> Append(messages, message),
                contextLength |-> contextLength + EstimateTokenCount(message)]
         S2 == IF S1.contextLength > MaxContextLength THEN CompressContext(S1) ELSE S1
     IN /\ messages' = S2.messages
        /\ contextLength' = S2.contextLength
  /\ UNCHANGED <<lvars, bvars, dvars, svars, rvars, pvars, fvars, tvars>>

\* clearMessages(sessionId); on an empty session it changes nothing.
ClearMessages ==
  /\ messages # << >>
  /\ messages' = << >>
  /\ contextLength' = 0
  /\ UNCHANGED <<pushed, lvars, bvars, dvars, svars, rvars, pvars, fvars, tvars>>

ContextNext ==
  \/ \E role \in Roles, text \in SessionTexts : AddMessage(role, text)
  \/ ClearMessages

\* ============================================================ specifications
\* The launcher with the worker's services not yet used.
\* The services before any message was invoked, batch or streaming.
ReplyIdle ==
  /\ enableStreaming = TRUE
  /\ streamHandler = 0
  /\ inv = [m \in Invocations |-> "idle"]
  /\ rhist = NoHistory
  /\ inbound = [m \in Invocations |-> ""]
  /\ fullResponse = [m \in Invocations |-> ""]
  /\ outbox = {}

\* No reply is being sent.
SendIdle ==
  /\ processedText = << >>
  /\ limit = MaxLimit
  /\ anchor = ""
  /\ sent = << >>

\* No reader is at work; the file of this section follows stateFile.
ReaderRest ==
  /\ disk = "missing"
  /\ connected = TRUE
  /\ rd = [r \in Readers |-> ReaderIdle]
  /\ generation = 0

LauncherSpecInit ==
  /\ LauncherInit /\ BridgeInit /\ DedupInit /\ SessionInit /\ ReplyIdle
  /\ SendIdle /\ ReaderRest /\ TypingRest /\ ContextInit

\* The worker's services under a launcher at rest.
ServiceInit ==
  /\ LauncherInit /\ stateFile = NoFile /\ ~git.dirty
  /\ BridgeInit
  /\ DedupInit
  /\ SessionInit
  /\ ReplyIdle
  /\ SendIdle
  /\ ReaderRest
  /\ TypingRest
  /\ ContextInit

ReplySpecInit ==
  /\ LauncherInit /\ stateFile = NoFile /\ ~git.dirty
  /\ BridgeInit
  /\ DedupInit
  /\ SessionInit
  /\ ReplyInit
  /\ SendIdle
  /\ ReaderRest
  /\ TypingRest
  /\ ContextInit

SendSpecInit ==
  /\ LauncherInit /\ stateFile = NoFile /\ ~git.dirty
  /\ BridgeInit
  /\ DedupInit
  /\ SessionInit
  /\ ReplyIdle
  /\ SendInit
  /\ ReaderRest
  /\ TypingRest
  /\ ContextInit

ReaderSpecInit ==
  /\ LauncherInit /\ stateFile = NoFile /\ ~git.dirty
  /\ BridgeInit
  /\ DedupInit
  /\ SessionInit
  /\ ReplyIdle
  /\ SendIdle
  /\ ReaderInit
  /\ TypingRest
  /\ ContextInit

LauncherSpec == LauncherSpecInit /\ [][LauncherNext]_vars

LauncherIpcSpec == LauncherSpecInit /\ [][LauncherIpcNext]_vars

BridgeSpec == ServiceInit /\ [][BridgeNext]_vars

\* The bridge with Node's timers: a timeout that was set fires unless the
\* wait is over before. Nothing is assumed about the agent ever returning.
BridgeFairSpec ==
  /\ ServiceInit
  /\ [][BridgeNext]_vars
  /\ \A m \in 1..MaxMsgs : WF_vars(Ceiling(m))

DedupSpec == ServiceInit /\ [][DedupNext]_vars

SessionSpec == ServiceInit /\ [][SessionNext]_vars

ReplySpec == ReplySpecInit /\ [][ReplyNext]_vars

SendSpec == SendSpecInit /\ [][SendNext]_vars

ReaderSpec == ReaderSpecInit /\ [][ReaderNext]_vars

TypingSpec == ServiceInit /\ [][TypingNext]_vars

ContextSpec == ServiceInit /\ [][ContextNext]_vars

\* ========================================================= claims, bridge
SameKey(a, b) == KeyOf(a) = KeyOf(b)

SameConversation(a, b) ==
  msgs[a].chatId = msgs[b].chatId /\ msgs[a].threadId = msgs[b].threadId

\* C1: as long as no waiter reached the 30 s ceiling, the agent invocations
\* of the messages of one conversation key start in the order in which
\* handleFeishuMessage was invoked with them.
C1_InvokedInArrivalOrder ==
  ~bhist.ceilingReached =>
    \A i, j \in 1..Len(bhist.invoked) :
      (i < j /\ SameKey(bhist.invoked[i], bhist.invoked[j]))
        => bhist.invoked[i] < bhist.invoked[j]

\* C2: as long as no waiter reached the 30 s ceiling, no two messages with
\* the same conversation key are between mark and unmark at the same time.
C2_OneHolderPerKey ==
  ~bhist.ceilingReached =>
    \A a, b \in 1..Len(msgs) : (a # b /\ Held(a) /\ Held(b)) => ~SameKey(a, b)

C2_Witness ==
  /\ ~bhist.ceilingReached
  /\ \E a, b \in 1..Len(msgs) :
       /\ a # b /\ SameKey(a, b)
       /\ pc[a] = "done"
       /\ b \in bhist.waited /\ pc[b] = "invoking"

\* C3: a message enters waitForProcessingComplete on arrival only when a
\* message of its own conversation is between mark and unmark; with none,
\* it marks its key at once, whatever runs for other conversations.
C3_WaitsOnlyForOwnConversation ==
  [][\A m \in 1..MaxMsgs :
       (pc[m] = "none" /\ pc'[m] \in {"waiting", "marked"})
         => (pc'[m] = "waiting"
               => \E o \in 1..Len(msgs) :
                    /\ Held(o)
                    /\ msgs[o].chatId = msgs'[m].chatId
                    /\ msgs[o].threadId = msgs'[m].threadId)]_vars

C3_Witness ==
  \E m \in bhist.parallel :
    /\ m \notin bhist.waited
    /\ pc[m] = "invoking"
    /\ \E o \in 1..Len(msgs) : o < m /\ pc[o] = "invoking" /\ ~SameConversation(o, m)

\* C17: every message that starts waiting for a busy conversation key
\* eventually goes on to processing, even if the earlier message's processing
\* never finishes.
C17_WaiterProceeds ==
  \A m \in 1..MaxMsgs : (pc[m] = "waiting") ~> (pc[m] # "waiting")

\* A waiter went on at the ceiling while the earlier message of its key is
\* still with the agent.
C17_Witness ==
  \E m \in bhist.waited, o \in 1..Len(msgs) :
    /\ bhist.ceilingReached /\ pc[m] = "marked"
    /\ o < m /\ SameKey(o, m) /\ pc[o] = "invoking"

\* C24: every execution of handleFeishuMessage that marked its key removes
\* the mark when it ends: each mark in processingChats belongs to a message
\* between mark and unmark, so with no message in flight the set is empty.
C24_MarksBelongToHolders ==
  processingChats \subseteq {KeyOf(m) : m \in {x \in 1..Len(msgs) : Held(x)}}

\* Two messages were processed to the end, nothing is in flight.
C24_Witness ==
  /\ Cardinality({m \in 1..Len(msgs) : pc[m] = "done"}) >= 2
  /\ \A m \in 1..Len(msgs) : pc[m] \in {"done", "ignored", "command"}
  /\ processingChats = {}

\* C38: a key is in processingChats exactly when a message of that key is
\* between its mark and its unmark, also after a waiter went on at the 30 s
\* ceiling: the end of one message never removes the mark under another.
C38_MarkedWhileProcessed ==
  processingChats = {KeyOf(m) : m \in {x \in 1..Len(msgs) : Held(x)}}

\* ========================================================== claims, dedup
\* The delivery handled by this step is a redelivery of an id that was
\* marked seen less than the time-to-live ago.
Redelivery ==
  /\ delivery'.n = delivery.n + 1
  /\ dhist.seenAt[delivery'.id] >= 0
  /\ now - dhist.seenAt[delivery'.id] < DedupTtl

\* C4 (as claimed): a redelivery within the time-to-live never reaches the
\* message callback, whatever was delivered in between.
C4_RedeliveryNeverReachesCallback ==
  [][Redelivery => ~delivery'.callback]_vars

\* C4 (amended): a redelivery within the time-to-live never reaches the
\* message callback, provided fewer than capacity - 1 deliveries of other ids
\* were marked seen in between.
C4_RedeliveryDroppedBelowCapacity ==
  [][(Redelivery /\ dhist.since[delivery'.id] < DedupMax - 1)
       => (delivery'.duplicate /\ ~delivery'.callback)]_vars

C4_Witness ==
  /\ delivery.n > 0
  /\ delivery.duplicate
  /\ dhist.since[delivery.id] = DedupMax - 2
  /\ delivery.at - dhist.seenAt[delivery.id] = DedupTtl - 1

\* The ids held by a cache, and those of them not older than the time-to-live.
CachedIds(cache) == {cache[i].id : i \in 1..Len(cache)}

FreshIds(cache, t) ==
  {cache[i].id : i \in {k \in 1..Len(cache) : ~(t - cache[k].ts > DedupTtl)}}

AliveWorkers == {w \in Workers : Alive(w)}

\* C5: in every reachable state at most one worker forked by the launcher
\* is alive.
C5_AtMostOneWorker == Cardinality(AliveWorkers) <= 1

\* C6: a rollback is performed only after a retry worker was forked and has
\* itself failed to start (timed out or exited abnormally); the kill of the
\* timed-out worker alone does not trigger it (git working).
C6_RollbackOnlyAfterFailedRetry ==
  ("rollback" \in last.ev /\ ~hist.gitFailed) => "retryHadFailed" \in last.ev

\* C7 (as claimed): handling ready with persisted status restarting leaves
\* status success and makes exactly one commit.
C7_ReadyCommitsExactlyOnce ==
  [][(last'.op = "ready" /\ stateFile.exists /\ stateFile.status = "restarting")
       => (stateFile'.status = "success" /\ git'.commits = git.commits + 1)]_vars

\* C7 (amended): handling ready with persisted status restarting leaves
\* status success and makes exactly one commit when the working tree is dirty
\* and the git commands succeed, and no commit otherwise.
C7_ReadyCommitsDirtyTreeOnce ==
  [][(last'.op = "ready" /\ stateFile.exists /\ stateFile.status = "restarting")
       => /\ stateFile'.exists /\ stateFile'.status = "success"
          /\ git'.commits = git.commits
                 + (IF git.dirty /\ "gitfail" \notin last'.ev THEN 1 ELSE 0)
          /\ (git.dirty /\ "gitfail" \notin last'.ev) => ~git'.dirty]_vars

C7_Witness ==
  last.op = "ready" /\ "commit" \in last.ev /\ stateFile.status = "success"
    /\ git.commits = 1 /\ ~git.dirty

\* C8: when the retries are exhausted with a RestartState and a dirty tree
\* (and git works), the next fork happens with the changes stashed, the tree
\* clean, and status=rollback, stashCreated=true and an error persisted.
C8_ForkAfterRollbackIsClean ==
  ("forkDue" \in last.ev /\ ~hist.gitFailed)
    => /\ ~git.dirty
       /\ git.stashes > 0
       /\ stateFile.exists
       /\ stateFile.status = "rollback"
       /\ stateFile.stashCreated
       /\ stateFile.error # ""

\* C9: the launcher exits with code 1 from failure handling only with the
\* retries exhausted and no RestartState, and then stashes nothing and forks
\* nothing; a rollback is performed only when a RestartState exists.
C9_Exit1OnlyWithoutState ==
  [][/\ proc' = "exit1" =>
          /\ restartRetries >= MAX_RESTART_RETRIES
          /\ ~stateFile.exists
          /\ git' = git
          /\ nextW' = nextW
          /\ "rollback" \notin last'.ev
     /\ "rollback" \in last'.ev => (stateFile.exists /\ proc' = "running")]_vars

C9_Witness ==
  proc = "exit1" /\ "exit1" \in last.ev /\ ~stateFile.exists
    /\ restartRetries = MAX_RESTART_RETRIES

\* C10: every stash made by a rollback is popped at the first ready handled
\* after it: the stashCreated marker is still true then (no git command
\* having failed).
C10_StashPoppedAtReady ==
  [][(last'.op = "ready" /\ git.stashes > 0 /\ ~hist'.gitFailed)
       => /\ stateFile.exists /\ stateFile.stashCreated
          /\ git'.stashes = git.stashes - 1]_vars

\* The kill-then-fork sequences in progress: the pending killChild promises
\* whose caller forks a worker once they resolve.
SequencesInFlight ==
  {k \in 1..Len(kills) : kills[k].cont \in {"restartAfterKill", "forkRestart",
                                            "forkRetry", "forkRollback"}}

\* C11: a worker exit, restart request or startup timeout handled while a
\* kill-then-fork sequence (performRestart, the retry of handleStartupFailure,
\* the restart ending performRollback) is in progress starts no second one.
C11_OneSequenceInFlight ==
  [][(SequencesInFlight # {} /\ last'.op \in {"exit", "restartRequest", "timeout"})
       => "sequence" \notin last'.ev]_vars


\* C12: when the launcher has exited through shutdown(), no worker it forked
\* is still running.
C12_NoWorkerSurvivesShutdown == proc = "exit0" => AliveWorkers = {}

\* C31: an IPC message of type 'error', of an unrecognized type, or that is
\* not an object changes nothing in the launcher: no worker is killed or
\* forked, the retry counter, the startup timer and the state file stay.
C31_OtherMessagesIgnored ==
  [][last'.op = "message" =>
       UNCHANGED <<child, readyTimeout, restartRetries, isShuttingDown, isRestarting,
                   proc, timers, kills, cleanupTimers, workers, killed, nextW,
                   stateFile, git>>]_vars

\* Such a message was handled while a restart was under way: a worker is
\* starting under its startup timer and the state file says restarting.
C31_Witness ==
  /\ last.op = "message"
  /\ child # 0 /\ workers[child] = "starting" /\ child \in timers
  /\ stateFile.exists /\ stateFile.status = "restarting"

\* C32: handling a ready changes the persisted state only by taking the
\* status from restarting to success; a rollback status stays, with its
\* error, in the file and in the state message sent to the worker.
C32_ReadyKeepsRollback ==
  [][last'.op = "ready" =>
       /\ \/ stateFile' = stateFile
          \/ /\ stateFile.exists /\ stateFile.status = "restarting"
             /\ stateFile' = [stateFile EXCEPT !.status = "success"]
       /\ (stateFile.exists /\ stateFile.status = "rollback") =>
            /\ stateFile'.status = "rollback" /\ stateFile'.error = stateFile.error
            /\ \A e \in {"state_restarting", "state_success"} : e \notin last'.ev]_vars

\* The ready of the worker forked by a rollback has been handled and the
\* rollback state was sent on to it.
C32_Witness ==
  /\ last.op = "ready" /\ "state_rollback" \in last.ev
  /\ stateFile.exists /\ stateFile.status = "rollback" /\ stateFile.error # ""

\* The steps taken by a worker.
WorkerOps == {"restartCommand", "handleRestartState", "edit"}

\* C33: a commit is made only by the launcher, and only while it handles a
\* ready with the persisted status restarting; a worker's step changes
\* neither the commits nor the stashes.
C33_CommitOnlyAtVerifiedReady ==
  [][/\ git'.commits # git.commits =>
          /\ last'.op = "ready"
          /\ stateFile.exists /\ stateFile.status = "restarting"
     /\ last'.op \in WorkerOps =>
          git'.commits = git.commits /\ git'.stashes = git.stashes]_vars

\* The ready of a restarted worker has been handled and the new code was
\* committed.
C33_Witness ==
  /\ last.op = "ready" /\ "commit" \in last.ev
  /\ git.commits > 0
  /\ stateFile.exists /\ stateFile.status = "success"

\* Worker w exits in this step while another worker is the current one.
StaleExit(w) ==
  /\ last'.op = "exit"
  /\ workers[w] # "exited" /\ workers'[w] = "exited"
  /\ child # 0 /\ child # w

\* C36: the exit of a worker that is no longer the current one leaves the
\* launcher's reference to the current worker and that worker's startup
\* timer alone and starts no failure handling.
C36_StaleExitIgnored ==
  [][\A w \in Workers :
       StaleExit(w) =>
         /\ child' = child
         /\ child \in timers => child \in timers'
         /\ last'.ev \cap {"sequence", "rollback", "exit1", "fork"} = {}]_vars

\* ========================================================= claims, sessions
\* C13: for every conversation, createSession is called exactly once, at its
\* first message, with the id prefix+chatId (no thread) or
\* prefix+chatId+"_"+threadId (thread); every later message of the
\* conversation gets the same id and causes no further createSession call.
C13_SessionCreatedOnce ==
  /\ \A r \in shist.returned :
       /\ r.id = SessionIdOf(r.chatId, r.threadId)
       /\ shist.creates[<<r.chatId, r.threadId>>] = 1
  /\ \A c \in Conversations : shist.creates[c] <= 1

\* C14: two different conversations never get the same session id, also when
\* the identifiers contain ":" or "_".
C14_SessionIdsDistinct ==
  \A r1, r2 \in shist.returned :
    (r1.chatId # r2.chatId \/ r1.threadId # r2.threadId) => r1.id # r2.id

\* C29: the conversation-key -> session-id mapping is append-only: no bridge
\* operation removes an entry or binds its key to another session id.
C29_MappingAppendOnly ==
  [][\A e \in chatToSessionMap : e \in chatToSessionMap']_vars

\* ========================================================== claims, replies
\* C15: when the agent invocation of a message fails, in streaming or in
\* batch mode, exactly one error reply is sent for that message.
C15_OneErrorReplyPerFailure ==
  \A m \in Invocations :
    (inv[m] = "done" /\ m \in rhist.failed) => rhist.errors[m] = 1

\* C37: when the streaming invocation of one message fails, no error reply
\* is sent for any other message being processed: the handlers called for
\* the failure are those of the failed message.
C37_FailureStaysInItsConversation ==
  [][\A m \in Invocations :
       (enableStreaming /\ m \in rhist'.failed \ rhist.failed) =>
         \A k \in Invocations \ {m} : rhist'.errors[k] = rhist.errors[k]]_vars

\* ======================================================= claims, long text
RECURSIVE Concat(_)
Concat(ms) == IF ms = << >> THEN << >> ELSE Head(ms).text \o Concat(Tail(ms))

\* C16: a text longer than maxLen is split into at least 2 chunks, none
\* longer than maxLen, whose concatenation in order is the original text;
\* of the messages sendMessage sends, only the first carries the reply anchor.
C16_ChunksReconstructText ==
  (Len(processedText) > limit /\ sent # << >>) =>
    /\ Len(sent) >= 2
    /\ \A i \in 1..Len(sent) : Len(sent[i].text) <= limit
    /\ Concat(sent) = processedText
    /\ \A i \in 2..Len(sent) : sent[i].replyTo = ""

\* ===================================================== claims, state file
\* C18: a missing, malformed or unreadable state file is "no restart in
\* flight" for both readers: readState returns null, handleRestartState
\* returns without notifying, and neither lets an exception escape, also
\* when the file disappears between the existence check and the read.
C18_BadFileIsNoRestart ==
  \A r \in Readers :
    (rd[r].pc = "done" /\ rd[r].saw \notin WellFormed) =>
      /\ ~rd[r].escaped
      /\ r = "launcher" => rd[r].result = "null"
      /\ r \in WorkerRuns => ~rd[r].notified

\* C34: a run of handleRestartState that reads the status restarting sends
\* no notification and deletes nothing; a run notifies only for the status
\* success or rollback, and the file it deletes never says restarting.
C34_RestartingStateLeftAlone ==
  \A r \in WorkerRuns :
    /\ (rd[r].pc = "done" /\ rd[r].saw = "restarting") =>
         ~rd[r].notified /\ rd[r].deleted = ""
    /\ (rd[r].notified /\ rd[r].saw \in WellFormed) =>
         rd[r].saw \in {"success", "rollback"}
    /\ rd[r].deleted # "restarting"

\* C35: for one restart (one content of the state file) the recorded chat
\* gets at most one notification, also when a second run of
\* handleRestartState starts while the first awaits its sends.
C35_NotifiedOnce ==
  \A r1, r2 \in WorkerRuns :
    (rd[r1].notified /\ rd[r2].notified /\ rd[r1].gen = rd[r2].gen) => r1 = r2

\* C19: when the worker exits with code 0 and no shutdown was requested (and
\* no restart is under way), the launcher starts a new worker, and if no
\* RestartState exists at that moment it first persists a minimal one
\* (status=restarting, empty chatIds and messageIds).
C19_Exit0RestartsWithState ==
  [][("exit0" \in last'.ev) =>
       /\ "fork" \in last'.ev
       /\ ~stateFile.exists => stateFile' = RestartingState(<< >>, << >>)]_vars

\* C20: the RestartState of a /restart command is not deleted before the
\* worker has read its final status (and notified the chats recorded in it);
\* in particular the launcher's delayed cleanup never deletes a state whose
\* status is still restarting.
C20_StateOutlivesRestart ==
  [][(last'.op = "cleanupTimer" /\ stateFile.exists /\ ~stateFile'.exists)
       => stateFile.status # "restarting"]_vars

\* C21: a RestartState with status=restarting written by a /restart command
\* is deleted by no step: it stays until the launcher has turned it into
\* success (ready of the restarted worker) or rollback. In particular the
\* delayed deletion scheduled by an earlier ready signal leaves it alone.
C21_RestartingStateSurvives ==
  [][~(/\ stateFile.exists
       /\ stateFile.status = "restarting"
       /\ stateFile.chatIds # << >>
       /\ ~stateFile'.exists)]_vars

\* C22: a rollback (retries exhausted with a RestartState) always leads to
\* a new worker, also when one of its git commands fails: the task that
\* performed it has forked the worker, or the fork is pending behind the
\* termination of the old one.
C22_RollbackForks ==
  ("rollback" \in last.ev /\ proc = "running") =>
    \/ "fork" \in last.ev
    \/ \E k \in 1..Len(kills) : kills[k].cont = "forkRollback"

\* C23: once the current worker has signalled ready, no startup timer is
\* armed any more, so no startup timeout can reach handleStartupFailure
\* while the acknowledged worker runs.
C23_NoTimerOnceReady ==
  (proc = "running" /\ child # 0 /\ workers[child] = "ready") => timers = {}

\* C26: every outbound message produced for an inbound message, reply or
\* error reply, is anchored as a reply to the inbound message id exactly
\* when the inbound message has a threadId.
C26_AnchoredIffThreaded ==
  \A o \in outbox : o.replyTo = (IF inbound[o.to] # "" THEN o.to ELSE 0)

RECURSIVE JoinDeltas(_)
JoinDeltas(ds) == IF ds = << >> THEN "" ELSE Head(ds) \o JoinDeltas(Tail(ds))

OutboundFor(m) == {o \in outbox : o.to = m}

\* C27: in streaming mode nothing is sent for a message before its stream
\* ends, and for a stream that emitted d1..dn and ended exactly one message
\* is sent, with the text d1..dn in order (none if that text is empty).
C27_OneMessageAtStreamEnd ==
  enableStreaming =>
    \A m \in Invocations :
      /\ inv[m] # "done" => OutboundFor(m) = {}
      /\ (inv[m] = "done" /\ m \notin rhist.failed) =>
           /\ rhist.answers[m] = (IF JoinDeltas(rhist.deltas[m]) = "" THEN 0 ELSE 1)
           /\ \A o \in OutboundFor(m) :
                o.kind = "answer" /\ o.text = JoinDeltas(rhist.deltas[m])

\* ================================================ claims, working indicator
\* C25: every reaction set by sendTyping(chat, true) is removed by the
\* sendTyping(chat, false) of the same message, also when two conversations
\* of one chat are processed at the same time: no reaction is left on a
\* message once all processing has ended.
C25_NoReactionLeft ==
  (\A m \in 1..MaxTypingMsgs : tpc[m] \in {"none", "done"}) => reactions = {}


\* =============================================== claims, session context
Range(ms) == {ms[i] : i \in 1..Len(ms)}

NoRepeat(ms) == \A i, j \in 1..Len(ms) : i # j => ms[i] # ms[j]

\* The addMessage call of this step took the estimated contextLength over
\* the ceiling.
CeilingExceeded ==
  /\ pushed' = pushed + 1
  /\ contextLength + EstimateTokenCount(messages'[Len(messages')]) > MaxContextLength

\* C30: whenever an addMessage takes the estimated contextLength over the
\* ceiling, the message list after the call is all system-role messages
\* followed by the most recent ones kept, no message twice, and contextLength
\* is the sum of the estimates of the messages that remain.
C30_CompressedOverCeiling ==
  [][CeilingExceeded =>
       LET all == Append(messages, messages'[Len(messages')])
           recent == LastN(all, KeepRecent)
           NotRecent(msg) == msg \notin Range(recent)
       IN /\ messages' = SelectSeq(SelectSeq(all, IsSystem), NotRecent) \o recent
          /\ NoRepeat(messages')
          /\ contextLength' = SumEstimates(messages')]_vars
====
